---- MODULE Spec2Model ----
(***************************************************************************)
(* KuiperInfer runtime graph (source/runtime/runtime_ir.cpp):              *)
(* RuntimeGraph::Init / Build / Forward, the shape resolver                *)
(* RuntimeGraphShape and the readiness-counted scheduler                   *)
(* (CheckOperatorReady / ProbeNextLayer / SetOpInputData).                 *)
(*                                                                         *)
(* Pointers to RuntimeOperator are indices into operators_; a RuntimeOperand*)
(* object of a node is its position in the node's input_operands_seq, and  *)
(* the input_operands map sends a producer name to the position of the     *)
(* operand object that std::map::insert kept (the first one inserted).     *)
(* LOG(FATAL), a failed CHECK and an uncaught exception end the process:   *)
(* they set fatal and nothing runs afterwards.                             *)
(***************************************************************************)
EXTENDS Integers, Sequences, FiniteSets, TLC

\* ------------------------------------------------------------------ bounds
\* total number of API calls (Init, Build, Forward) in one behaviour
MaxCalls == 5
\* buffers placed on an operand before Build: at most MaxBuffers
MaxBuffers == 2
\* tensor payloads supplied to Forward are drawn from 1..MaxVal
MaxVal == 2
\* the caller supplies 0..MaxInputs input tensors to Forward
MaxInputs == 2

\* ------------------------------------------------- std::map iteration order
\* std::map<std::string, ...> iterates in ascending key order
NameOrder == <<"A", "B", "C", "D", "I", "I2", "O">>

NameRank(n) == CHOOSE i \in 1..Len(NameOrder) : NameOrder[i] = n

RECURSIVE SortedNames(_)
SortedNames(S) ==
  IF S = {} THEN <<>>
  ELSE LET m == CHOOSE x \in S : \A y \in S : NameRank(x) <= NameRank(y)
       IN <<m>> \o SortedNames(S \ {m})

\* ------------------------------------------- pnnx descriptors (the loaded graph)
\* pnnx::Operand seen from its consumer: producer, shape, element-type code
In(p, s) == [producer |-> p, shape |-> s, type |-> 1]
\* pnnx::Operand seen from its producer: shape and consumers
Out(s, cs) == [shape |-> s, consumers |-> cs]
\* pnnx::Operator
Op(n, t, ins, outs) == [name |-> n, type |-> t, inputs |-> ins, outputs |-> outs]

\* I -> A -> B -> O, identity handlers
ChainOps(s) ==
  << Op("I", "pnnx.Input", <<>>, <<Out(s, <<"A">>)>>),
     Op("A", "test.Identity", <<In("I", s)>>, <<Out(s, <<"B">>)>>),
     Op("B", "test.Identity", <<In("A", s)>>, <<Out(s, <<"O">>)>>),
     Op("O", "pnnx.Output", <<In("B", s)>>, <<>>) >>

\* I -> A, I -> B, A -> C, B -> C, C -> O
DiamondOps(s) ==
  << Op("I", "pnnx.Input", <<>>, <<Out(s, <<"A", "B">>)>>),
     Op("A", "test.Identity", <<In("I", s)>>, <<Out(s, <<"C">>)>>),
     Op("B", "test.Double", <<In("I", s)>>, <<Out(s, <<"C">>)>>),
     Op("C", "test.Add", <<In("A", s), In("B", s)>>, <<Out(s, <<"O">>)>>),
     Op("O", "pnnx.Output", <<In("C", s)>>, <<>>) >>

\* I -> A -> C, I -> B -> D -> C, C -> O: the two paths into C differ in length
SkewOps(s) ==
  << Op("I", "pnnx.Input", <<>>, <<Out(s, <<"A", "B">>)>>),
     Op("A", "test.Identity", <<In("I", s)>>, <<Out(s, <<"C">>)>>),
     Op("B", "test.Double", <<In("I", s)>>, <<Out(s, <<"D">>)>>),
     Op("D", "test.Identity", <<In("B", s)>>, <<Out(s, <<"C">>)>>),
     Op("C", "test.Add", <<In("A", s), In("D", s)>>, <<Out(s, <<"O">>)>>),
     Op("O", "pnnx.Output", <<In("C", s)>>, <<>>) >>

\* I -> A -> O, and a second graph input I2 -> A that is not the designated one
StarvedOps(s) ==
  << Op("I", "pnnx.Input", <<>>, <<Out(s, <<"A">>)>>),
     Op("I2", "pnnx.Input", <<>>, <<Out(s, <<"A">>)>>),
     Op("A", "test.Add", <<In("I", s), In("I2", s)>>, <<Out(s, <<"O">>)>>),
     Op("O", "pnnx.Output", <<In("A", s)>>, <<>>) >>

\* I -> A, A -> B declared twice by B, B -> O
DupOps(s) ==
  << Op("I", "pnnx.Input", <<>>, <<Out(s, <<"A">>)>>),
     Op("A", "test.Identity", <<In("I", s)>>, <<Out(s, <<"B", "B">>)>>),
     Op("B", "test.Identity", <<In("A", s), In("A", s)>>, <<Out(s, <<"O">>)>>),
     Op("O", "pnnx.Output", <<In("B", s)>>, <<>>) >>

\* I -> A -> O where A's type is not registered with the layer factory
UnknownOps(s) ==
  << Op("I", "pnnx.Input", <<>>, <<Out(s, <<"A">>)>>),
     Op("A", "test.Unregistered", <<In("I", s)>>, <<Out(s, <<"O">>)>>),
     Op("O", "pnnx.Output", <<In("A", s)>>, <<>>) >>

\* I -> A -> O and I -> D, where D's output (shape t) has no consumer: the
\* only shape check D's output meets is the one of the output pass
DeadEndOps(s, t) ==
  << Op("I", "pnnx.Input", <<>>, <<Out(s, <<"A", "D">>)>>),
     Op("A", "test.Identity", <<In("I", s)>>, <<Out(s, <<"O">>)>>),
     Op("D", "test.Identity", <<In("I", s)>>, <<Out(t, <<>>)>>),
     Op("O", "pnnx.Output", <<In("A", s)>>, <<>>) >>

\* I -> A -> O where A also names itself as producer and as consumer
SelfLoopOps(s) ==
  << Op("I", "pnnx.Input", <<>>, <<Out(s, <<"A">>)>>),
     Op("A", "test.Add", <<In("I", s), In("A", s)>>, <<Out(s, <<"A", "O">>)>>),
     Op("O", "pnnx.Output", <<In("A", s)>>, <<>>) >>

\* what graph_->load(param_path_, bin_path_) yields for each param path
ParamPaths ==
  {"chain2d", "chain4d", "diamond", "skew", "starved", "dup", "unknown",
   "badrank", "negbatch", "zerobatch", "deadrank", "selfloop",
   "missing.param", ""}

PnnxLoad(path) ==
  CASE path = "chain2d"   -> ChainOps(<<1, 3>>)
    [] path = "chain4d"   -> ChainOps(<<2, 1, 1, 3>>)
    [] path = "diamond"   -> DiamondOps(<<1, 2, 2, 2>>)
    [] path = "skew"      -> SkewOps(<<1, 2, 2, 2>>)
    [] path = "starved"   -> StarvedOps(<<1, 3>>)
    [] path = "dup"       -> DupOps(<<1, 1, 1, 3>>)
    [] path = "unknown"   -> UnknownOps(<<1, 3>>)
    [] path = "badrank"   -> ChainOps(<<1, 2, 3>>)
    [] path = "negbatch"  -> ChainOps(<<-1, 3>>)
    [] path = "zerobatch" -> ChainOps(<<0, 3>>)
    [] path = "deadrank"  -> DeadEndOps(<<1, 3>>, <<1, 2, 3>>)
    [] path = "selfloop"  -> SelfLoopOps(<<1, 1, 1, 3>>)
    [] OTHER              -> <<>>

\* graph_->load returns non-zero for a path it cannot read
LoadOk(path) == path # "missing.param"

\* the names Build and Forward are called with
BuildInputNames == {"I", "nosuch"}
BuildOutputNames == {"O", "nosuch"}

\* ------------------------------------------------------------ lifecycle state
\* enum class GraphState, compared with < and >= in Build and Forward
GraphStateRank(s) ==
  CASE s = "NeedInit" -> 0 [] s = "NeedBuild" -> 1 [] s = "Complete" -> 2

\* ------------------------------------------------------------------ variables
VARIABLES
  param_path_,            \* RuntimeGraph::param_path_
  graph_,                 \* graph_->ops of the pnnx graph loaded last
  graph_state_,           \* RuntimeGraph::graph_state_
  operators_,             \* RuntimeGraph::operators_
  input_operators_maps_,  \* name -> index of a pnnx.Input node
  output_operators_maps_, \* name -> index of a pnnx.Output node
  input_name_, output_name_,
  fatal,                  \* "" or why the process was terminated
  calls,                  \* number of API calls made so far
  last_call,              \* the API call made last and how it ended
  fwd                     \* the Forward call frame(s): locals of Forward

vars == <<param_path_, graph_, graph_state_, operators_, input_operators_maps_,
          output_operators_maps_, input_name_, output_name_, fatal, calls,
          last_call, fwd>>

graphVars == <<param_path_, graph_, graph_state_, operators_,
               input_operators_maps_, output_operators_maps_, input_name_,
               output_name_>>

\* the threads that may call Forward: the caller's own thread, and a second
\* thread that calls Forward on the same RuntimeGraph while a pass is running
MainFrame == 1
Frames == {MainFrame, 2}

\* ------------------------------------------------------------------- helpers
Range(f) == {f[x] : x \in DOMAIN f}

RECURSIVE Flatten(_)
Flatten(ss) == IF ss = <<>> THEN <<>> ELSE Head(ss) \o Flatten(Tail(ss))

EmptyMap == [n \in {} |-> 0]

\* the first operator of ops named n (std::map::insert keeps the first entry)
FirstNamed(ops, n) ==
  CHOOSE k \in 1..Len(ops) :
    ops[k].name = n /\ \A j \in 1..(k - 1) : ops[j].name # n

\* ------------------------------------------------------------ Tensor<float>
\* a buffer: its (channels, rows, cols) and its payload; a fresh one is zero
NewTensor(shapes) ==
  [dims |-> IF Len(shapes) = 4 THEN <<shapes[2], shapes[3], shapes[4]>>
            ELSE <<1, shapes[2], 1>>,
   v |-> 0]

AllocTensors(shapes) == [i \in 1..shapes[1] |-> NewTensor(shapes)]

\* ------------------------------------------------------- RuntimeGraph::Init
\* InitInputOperators: one RuntimeOperand per declared input, pushed onto
\* input_operands_seq; input_operands.insert keeps the first per producer name
InitInputOperators(inputs) ==
  [input_operands_seq |->
     [i \in 1..Len(inputs) |->
        [name |-> inputs[i].producer, shapes |-> inputs[i].shape,
         type |-> "float32", datas |-> <<>>]],
   input_operands |->
     [n \in {inputs[i].producer : i \in 1..Len(inputs)} |->
        CHOOSE i \in 1..Len(inputs) :
          inputs[i].producer = n
          /\ \A j \in 1..(i - 1) : inputs[j].producer # n]]

\* InitInputOperators' switch (input->type): anything but 1 is LOG(FATAL)
UnknownInputType(ops) ==
  \E k \in 1..Len(ops) : \E i \in 1..Len(ops[k].inputs) :
    ops[k].inputs[i].type # 1

\* InitOutputOperators: the consumer names of every output, in order
InitOutputOperators(outputs) ==
  Flatten([i \in 1..Len(outputs) |-> outputs[i].consumers])

\* the first loop of Init: one RuntimeOperator per pnnx operator
MakeOperators(ops) ==
  [k \in 1..Len(ops) |->
     LET io == InitInputOperators(ops[k].inputs)
     IN [name |-> ops[k].name,
         type |-> ops[k].type,
         input_operands |-> io.input_operands,
         input_operands_seq |-> io.input_operands_seq,
         output_names |-> InitOutputOperators(ops[k].outputs),
         output_operators |-> EmptyMap,
         output_operands |-> <<>>,
         layer |-> "",
         meet_num |-> 0]]

\* faulty variant: a node is compared with itself too
IsAnyOperator(current, next) == TRUE

\* whether next_op is made a consumer of current_op (the test of line 196)
IsOtherOperator(current, next) == next # current

\* the second loop of Init: output_operators of every node
WireOperators(rt) ==
  [c \in 1..Len(rt) |->
     LET nexts == {k \in 1..Len(rt) :
                     /\ IsOtherOperator(c, k)
                     /\ rt[k].name \in Range(rt[c].output_names)}
     IN [rt[c] EXCEPT !.output_operators =
           [n \in {rt[k].name : k \in nexts} |->
              CHOOSE k \in nexts :
                rt[k].name = n
                /\ \A j \in nexts : rt[j].name = n => k <= j]]]

\* faulty variant: Init leaves the graph marked as not initialised
StateAfterInitNeedInit == "NeedInit"

\* the state a successful Init sets (line 205)
StateAfterInit == "NeedBuild"

\* Init as a function of the state it reads: what it returns and leaves behind
InitResult(path, old_graph, old_ops, old_state) ==
  IF path = "" THEN
    [ok |-> FALSE, fatal |-> "", graph |-> old_graph, operators |-> old_ops,
     state |-> old_state]
  ELSE IF ~LoadOk(path) \/ PnnxLoad(path) = <<>> THEN
    [ok |-> FALSE, fatal |-> "", graph |-> <<>>, operators |-> old_ops,
     state |-> old_state]
  ELSE IF UnknownInputType(PnnxLoad(path)) THEN
    [ok |-> FALSE, fatal |-> "Unknown input operand type", graph |-> PnnxLoad(path),
     operators |-> old_ops, state |-> old_state]
  ELSE
    [ok |-> TRUE, fatal |-> "", graph |-> PnnxLoad(path),
     operators |-> WireOperators(MakeOperators(PnnxLoad(path))),
     state |-> StateAfterInit]

\* ------------------------------------------------------- RuntimeGraphShape
\* the comparison of one existing buffer with the declared shape (lines 36-43)
DimsMatch(dims, shapes) ==
  IF Len(shapes) = 4
  THEN dims[1] = shapes[2] /\ dims[2] = shapes[3] /\ dims[3] = shapes[4]
  ELSE dims[2] = shapes[2] /\ dims[1] = 1 /\ dims[3] = 1

\* faulty variant: a batch of zero is refused as well
ShapeErrorZeroBatch(shapes) ==
  IF Len(shapes) = 0 THEN "std::out_of_range"
  ELSE IF ~(shapes[1] > 0) THEN "Dynamic batch size is not supported!"
  ELSE IF ~(Len(shapes) = 2 \/ Len(shapes) = 4) THEN "Unsupported shape sizes"
  ELSE ""

\* the rank and batch CHECKs both passes make (lines 29-31 and 77-79);
\* shapes.at(0) of an empty shape throws std::out_of_range
ShapeError(shapes) ==
  IF Len(shapes) = 0 THEN "std::out_of_range"
  ELSE IF ~(shapes[1] >= 0) THEN "Dynamic batch size is not supported!"
  ELSE IF ~(Len(shapes) = 2 \/ Len(shapes) = 4) THEN "Unsupported shape sizes"
  ELSE ""

\* faulty variant: the number of existing buffers is not compared with batch
InputOperandErrorAnyCount(operand) ==
  IF operand.type # "float32" THEN "The graph only support float32 yet!"
  ELSE IF ShapeError(operand.shapes) # "" THEN ShapeError(operand.shapes)
  ELSE ""

\* InitOperatorInputTensor on one operand of the input_operands map:
\* "" or the CHECK that fails
InputOperandError(operand) ==
  IF operand.type # "float32" THEN "The graph only support float32 yet!"
  ELSE IF ShapeError(operand.shapes) # "" THEN ShapeError(operand.shapes)
  ELSE IF operand.datas # <<>> THEN
    IF Len(operand.datas) # operand.shapes[1] THEN "Batch size is wrong!"
    ELSE IF \E i \in 1..operand.shapes[1] :
              ~DimsMatch(operand.datas[i].dims, operand.shapes)
    THEN "CHECK failed: origin_shape"
    ELSE ""
  ELSE ""

\* the operand after the input pass: buffers allocated when it had none
InitInputOperand(operand) ==
  IF operand.datas # <<>> THEN operand
  ELSE [operand EXCEPT !.datas = AllocTensors(operand.shapes)]

\* the operand objects the input pass visits: those the map refers to
MappedOperands(op) == Range(op.input_operands)

InitOperatorInputTensorError(operators) ==
  LET errs == {e \in UNION {{InputOperandError(operators[k].input_operands_seq[i]) :
                               i \in MappedOperands(operators[k])} :
                            k \in 1..Len(operators)} : e # ""}
  IN IF errs = {} THEN "" ELSE CHOOSE e \in errs : TRUE

InitOperatorInputTensor(operators) ==
  [k \in 1..Len(operators) |->
     [operators[k] EXCEPT !.input_operands_seq =
        [i \in 1..Len(operators[k].input_operands_seq) |->
           IF i \in MappedOperands(operators[k])
           THEN InitInputOperand(operators[k].input_operands_seq[i])
           ELSE operators[k].input_operands_seq[i]]]]

\* the re-check of an existing output operand's buffers (lines 101-109): it
\* reads the operand's own shapes vector, and for a 2-D shape indexes it at 2
ExistingOutputBufferError(output_tensors, shapes) ==
  IF output_tensors.datas = <<>> THEN ""
  ELSE IF Len(shapes) = 4 THEN
    IF output_tensors.shapes[2] = shapes[2] /\ output_tensors.shapes[3] = shapes[3]
       /\ output_tensors.shapes[4] = shapes[4]
    THEN "" ELSE "CHECK failed: tensor_shapes"
  ELSE IF ~(output_tensors.shapes[1] = 1) THEN "CHECK failed: tensor_shapes"
  ELSE IF ~(output_tensors.shapes[2] = shapes[2]) THEN "CHECK failed: tensor_shapes"
  ELSE IF Len(output_tensors.shapes) < 3 THEN "std::out_of_range"
  ELSE IF output_tensors.shapes[3] = 1 THEN "" ELSE "CHECK failed: tensor_shapes"

\* InitOperatorOutputTensor on one (pnnx operator, runtime operator) pair
OutputOperandError(pnnx_op, runtime_op) ==
  IF Len(pnnx_op.outputs) > 1 THEN "Only support one node one output yet!"
  ELSE IF pnnx_op.outputs = <<>> THEN ""
  ELSE LET shapes == pnnx_op.outputs[1].shape
           output_tensors == runtime_op.output_operands
       IN IF ShapeError(shapes) # "" THEN ShapeError(shapes)
          ELSE IF output_tensors = <<>> THEN ""
          ELSE IF shapes[1] # Len(output_tensors[1].datas) THEN "CHECK failed: batch"
          ELSE IF output_tensors[1].type # "float32" THEN "CHECK failed: type"
          ELSE IF output_tensors[1].shapes # shapes THEN "CHECK failed: shapes"
          ELSE ExistingOutputBufferError(output_tensors[1], shapes)

InitOperatorOutputTensorError(pnnx_operators, operators) ==
  IF pnnx_operators = <<>> \/ operators = <<>> THEN "CHECK failed: empty"
  ELSE IF Len(pnnx_operators) # Len(operators) THEN "CHECK failed: size"
  ELSE LET errs == {e \in {OutputOperandError(pnnx_operators[i], operators[i]) :
                             i \in 1..Len(operators)} : e # ""}
       IN IF errs = {} THEN "" ELSE CHOOSE e \in errs : TRUE

InitOperatorOutputTensor(pnnx_operators, operators) ==
  [i \in 1..Len(operators) |->
     IF pnnx_operators[i].outputs = <<>> \/ operators[i].output_operands # <<>>
     THEN operators[i]
     ELSE [operators[i] EXCEPT !.output_operands =
             << [name |-> pnnx_operators[i].name,
                 shapes |-> pnnx_operators[i].outputs[1].shape,
                 type |-> "float32",
                 datas |-> AllocTensors(pnnx_operators[i].outputs[1].shape)] >>]]

\* ------------------------------------------------------ RuntimeGraph::Build
\* the types LayerRegisterer::CreateLayer has a creator for
RegisteredLayers == {"test.Identity", "test.Double", "test.Add"}

IsSentinel(op) == op.type = "pnnx.Input" \/ op.type = "pnnx.Output"

\* the loop of lines 221-233: sentinels get no layer, the others get one
BindLayers(operators) ==
  [k \in 1..Len(operators) |->
     IF IsSentinel(operators[k]) THEN operators[k]
     ELSE [operators[k] EXCEPT !.layer = operators[k].type]]

LayerCreateFails(operators) ==
  \E k \in 1..Len(operators) :
    ~IsSentinel(operators[k]) /\ operators[k].type \notin RegisteredLayers

SentinelMap(operators, type) ==
  [n \in {operators[k].name : k \in {j \in 1..Len(operators) : operators[j].type = type}}
     |-> FirstNamed(operators, n)]

\* whether Build runs Init first (line 210)
BuildNeedsInit(state) == state = "NeedInit"

\* the state Build works on: after its own Init call when the graph needs one
BuildInit ==
  IF BuildNeedsInit(graph_state_)
  THEN InitResult(param_path_, graph_, operators_, graph_state_)
  ELSE [ok |-> TRUE, fatal |-> "", graph |-> graph_, operators |-> operators_,
        state |-> graph_state_]

\* "" when Build completes, else the LOG(FATAL) / CHECK that ends the process
BuildError(init) ==
  IF init.fatal # "" THEN init.fatal
  ELSE IF ~init.ok THEN "Init graph failed!"
  ELSE IF ~(GraphStateRank(init.state) >= GraphStateRank("NeedBuild"))
    THEN "Graph status error"
  ELSE IF init.operators = <<>> THEN "Graph operators is empty, may be no init"
  ELSE IF LayerCreateFails(init.operators) THEN "Layer init failed"
  ELSE IF InitOperatorInputTensorError(BindLayers(init.operators)) # ""
    THEN InitOperatorInputTensorError(BindLayers(init.operators))
  ELSE InitOperatorOutputTensorError(
         init.graph, InitOperatorInputTensor(BindLayers(init.operators)))

\* ------------------------------------------------------------ Forward frames
IdleFrame ==
  [pc |-> "idle",
   inputs |-> <<>>,              \* the payloads of the caller's input tensors
   input_op |-> 0, output_op |-> 0,
   operator_queue |-> <<>>,
   current_op |-> 0,
   layer_output_datas |-> <<>>,
   next_ops |-> <<>>,            \* the consumers ProbeNextLayer has yet to visit
   result |-> <<>>,              \* what Forward returned
   \* what happened in this call so far (observations, read by no action)
   handler_runs |-> <<>>,        \* node -> number of layer->Forward calls
   handler_meet |-> <<>>,        \* node -> meet_num when its layer was called
   handler_inputs |-> <<>>,      \* node -> the layer_input_datas it was given
   produced |-> <<>>,            \* node -> the layer_output_datas it propagated
   delivered |-> {},             \* <<producer, consumer>> deliveries made
   enqueued |-> <<>>,            \* node -> pushes by ProbeNextLayer
   output_dequeues |-> 0,        \* times the output node was popped
   retried |-> FALSE,            \* whether an unready node was pushed back
   overlapped |-> FALSE]         \* whether another pass ran during this one

Running(p) == fwd[p].pc \in {"loop", "probe", "exit"}

\* the caller is single-threaded: it makes a call after the previous returned
CallerFree == fatal = "" /\ calls < MaxCalls /\ \A p \in Frames : ~Running(p)

\* ------------------------------------------------------------------- Init
Init ==
  /\ param_path_ \in ParamPaths
  /\ graph_ = <<>>
  /\ graph_state_ = "NeedInit"
  /\ operators_ = <<>>
  /\ input_operators_maps_ = EmptyMap
  /\ output_operators_maps_ = EmptyMap
  /\ input_name_ = ""
  /\ output_name_ = ""
  /\ fatal = ""
  /\ calls = 0
  /\ last_call = [op |-> "none", outcome |-> "none"]
  /\ fwd = [p \in Frames |-> IdleFrame]

\* bool RuntimeGraph::Init()
InitCall ==
  /\ CallerFree
  /\ LET r == InitResult(param_path_, graph_, operators_, graph_state_)
     IN /\ graph_' = r.graph
        /\ operators_' = r.operators
        /\ graph_state_' = r.state
        /\ fatal' = r.fatal
        /\ last_call' = [op |-> "Init",
                         outcome |-> IF r.fatal # "" THEN "fatal"
                                     ELSE IF r.ok THEN "true" ELSE "false"]
  /\ calls' = calls + 1
  /\ UNCHANGED <<param_path_, input_operators_maps_, output_operators_maps_,
                 input_name_, output_name_, fwd>>

\* void RuntimeGraph::Build(input_name, output_name)
BuildCall(input_name, output_name) ==
  /\ CallerFree
  /\ calls' = calls + 1
  /\ LET init == BuildInit
         err == BuildError(init)
     IN IF err # ""
        THEN /\ fatal' = err
             /\ last_call' = [op |-> "Build", outcome |-> "fatal"]
             /\ UNCHANGED <<graphVars, fwd>>
        ELSE /\ graph_' = init.graph
             /\ operators_' =
                  InitOperatorOutputTensor(
                    init.graph, InitOperatorInputTensor(BindLayers(init.operators)))
             /\ input_operators_maps_' = SentinelMap(init.operators, "pnnx.Input")
             /\ output_operators_maps_' = SentinelMap(init.operators, "pnnx.Output")
             /\ graph_state_' = "Complete"
             /\ input_name_' = input_name
             /\ output_name_' = output_name
             /\ last_call' = [op |-> "Build", outcome |-> "done"]
             /\ UNCHANGED <<param_path_, fatal, fwd>>

\* ---------------------------------------------------- the compute handlers
\* layer->Forward(inputs, outputs) of the layers the graphs above use: the
\* payloads written into the nout output buffers
LayerOutputs(layer, ins, nout) ==
  CASE layer = "test.Identity" -> [j \in 1..nout |-> ins[j]]
    [] layer = "test.Double"   -> [j \in 1..nout |-> 2 * ins[j]]
    [] layer = "test.Add"      -> [j \in 1..nout |-> ins[j] + ins[j + nout]]

LayerAccepts(layer, ins, nout) ==
  CASE layer = "test.Add" -> Len(ins) = 2 * nout
    [] OTHER              -> Len(ins) = nout

\* the InferStatus a layer may return: it may fail on any input, and fails
\* on an input list it cannot use
LayerStatuses(layer, ins, nout) ==
  IF LayerAccepts(layer, ins, nout)
  THEN {"kInferSuccess", "kInferFailed"} ELSE {"kInferFailed"}

\* ------------------------------------------------- scheduler helper methods
Payloads(datas) == [i \in 1..Len(datas) |-> datas[i].v]

\* bool RuntimeGraph::CheckOperatorReady: its CHECK, then its answer
CheckOperatorReadyFails(op) ==
  ~(op.meet_num <= Cardinality(DOMAIN op.input_operands))

\* faulty variant: ready as soon as any producer has delivered
CheckOperatorReadyAnyDelivery(op) == op.meet_num > 0

CheckOperatorReady(op) == op.meet_num = Cardinality(DOMAIN op.input_operands)

\* faulty variant: only a source list that is too short is refused
SetOpInputDataFailsWhenShorter(src, dest) == Len(src) < Len(dest)

\* RuntimeGraph::SetOpInputData: its CHECK, then the copy into dest
SetOpInputDataFails(src, dest) == ~(Len(src) = Len(dest))

SetOpInputData(src, dest) == [i \in 1..Len(dest) |-> [dest[i] EXCEPT !.v = src[i]]]

\* the std::find of line 498
InQueue(operator_queue, op) == op \in Range(operator_queue)

\* faulty variant: the operands walked from the last declared to the first
GatherInputsReversed(op) ==
  Flatten([i \in 1..Len(op.input_operands_seq) |->
             Payloads(op.input_operands_seq[Len(op.input_operands_seq) + 1 - i].datas)])

\* lines 290-297: every buffer of every operand of input_operands_seq, in order
GatherInputs(op) ==
  Flatten([i \in 1..Len(op.input_operands_seq) |->
             Payloads(op.input_operands_seq[i].datas)])

\* faulty variant: the increment of line 499 is not undone at line 503
BumpMeetNumTwice(op) == [op EXCEPT !.meet_num = @ + 2]

\* meet_num after one delivery (lines 499-505 net effect)
BumpMeetNum(op) == [op EXCEPT !.meet_num = @ + 1]

\* faulty variant: the readiness test of line 500 left out
PushWhenNotQueued(operator_queue, next, bumped) == ~InQueue(operator_queue, next)

\* whether the delivery that has just been counted pushes the consumer
\* (lines 498-502)
PushAfterDelivery(operator_queue, next, bumped) ==
  ~InQueue(operator_queue, next) /\ CheckOperatorReady(bumped)

\* the body of ProbeNextLayer's loop for the consumer named next_name
ProbeOne(operators, operator_queue, current_op, layer_output_datas, next_name) ==
  LET next == operators[current_op].output_operators[next_name]
      next_input_operands == operators[next].input_operands
      name == operators[current_op].name
      same == [fatal |-> "", operators |-> operators, queue |-> operator_queue,
               delivered |-> FALSE, pushed |-> FALSE, next |-> next]
  IN IF name \notin DOMAIN next_input_operands THEN same
     ELSE
       LET pos == next_input_operands[name]
           dest == operators[next].input_operands_seq[pos].datas
       IN IF SetOpInputDataFails(layer_output_datas, dest)
          THEN [same EXCEPT !.fatal = "CHECK failed: src.size() == dest.size()"]
          ELSE
            LET copied == [operators EXCEPT
                             ![next].input_operands_seq[pos].datas =
                               SetOpInputData(layer_output_datas, dest)]
                bumped == BumpMeetNum(copied[next])
            IN IF ~InQueue(operator_queue, next) /\ CheckOperatorReadyFails(bumped)
               THEN [same EXCEPT !.fatal = "CHECK failed: meet_num <= size",
                                 !.operators = [copied EXCEPT ![next] = bumped]]
               ELSE [fatal |-> "",
                     operators |-> [copied EXCEPT ![next] = bumped],
                     queue |-> IF PushAfterDelivery(operator_queue, next, bumped)
                               THEN Append(operator_queue, next)
                               ELSE operator_queue,
                     delivered |-> TRUE,
                     pushed |-> PushAfterDelivery(operator_queue, next, bumped),
                     next |-> next]

\* faulty variant: the reset also drops the node's layer
ResetMeetNumAndLayer(operators) ==
  [k \in 1..Len(operators) |-> [operators[k] EXCEPT !.meet_num = 0, !.layer = ""]]

\* lines 324-326
ResetMeetNum(operators) ==
  [k \in 1..Len(operators) |-> [operators[k] EXCEPT !.meet_num = 0]]

\* ---------------------------------------------------- RuntimeGraph::Forward
\* the caller's input tensors (their payloads)
InputLists == UNION {[1..n -> 1..MaxVal] : n \in 0..MaxInputs}

\* the input tensors of the second thread: every length, one payload
ConcurrentInputLists == {inputs \in InputLists : \A i \in DOMAIN inputs : inputs[i] = 1}

\* faulty variant: the guard compares with NeedBuild instead of Complete
ForwardStateRejectedBelowBuild(state) ==
  GraphStateRank(state) < GraphStateRank("NeedBuild")

\* whether Forward refuses the lifecycle state (line 244)
ForwardStateRejected(state) == GraphStateRank(state) < GraphStateRank("Complete")

\* lines 244-261: "" or the LOG(FATAL) that ends the call
ForwardEntryError ==
  IF ForwardStateRejected(graph_state_) THEN "Graph need be build!"
  ELSE IF input_name_ \notin DOMAIN input_operators_maps_
    THEN "Can not find the input node"
  ELSE IF output_name_ \notin DOMAIN output_operators_maps_
    THEN "Can not find the output node"
  ELSE ""

NodeCounters(operators) == [k \in 1..Len(operators) |-> 0]

NodeLists(operators) == [k \in 1..Len(operators) |-> <<>>]

\* the locals of Forward on reaching the while loop (lines 249-264)
EnteredFrame(inputs) ==
  [IdleFrame EXCEPT
     !.pc = "loop",
     !.inputs = inputs,
     !.input_op = input_operators_maps_[input_name_],
     !.output_op = output_operators_maps_[output_name_],
     !.operator_queue = <<input_operators_maps_[input_name_]>>,
     !.handler_runs = NodeCounters(operators_),
     !.handler_meet = NodeCounters(operators_),
     !.handler_inputs = NodeLists(operators_),
     !.produced = NodeLists(operators_),
     !.enqueued = NodeCounters(operators_)]

\* Forward up to the first test of the while loop (lines 244-264)
ForwardCall(p, inputs) ==
  /\ CallerFree
  /\ calls' = calls + 1
  /\ IF ForwardEntryError # ""
     THEN /\ fatal' = ForwardEntryError
          /\ last_call' = [op |-> "Forward", outcome |-> "fatal"]
          /\ fwd' = [fwd EXCEPT ![p] = [IdleFrame EXCEPT !.pc = "aborted"]]
     ELSE /\ fwd' = [fwd EXCEPT ![p] = EnteredFrame(inputs)]
          /\ last_call' = [op |-> "Forward", outcome |-> "running"]
          /\ UNCHANGED fatal
  /\ UNCHANGED graphVars

\* Forward called by a second thread while a pass is running on the same
\* graph: nothing in Forward excludes it (there is no lock in lines 241-335).
\* The state is Complete and both sentinels were found by the running pass.
ConcurrentForwardCall(p, inputs) ==
  /\ fatal = ""
  /\ calls < MaxCalls
  /\ ~Running(p)
  /\ \E q \in Frames \ {p} : Running(q)
  /\ ForwardEntryError = ""
  /\ calls' = calls + 1
  /\ fwd' = [q \in Frames |->
               IF q = p THEN [EnteredFrame(inputs) EXCEPT !.overlapped = TRUE]
               ELSE IF Running(q) THEN [fwd[q] EXCEPT !.overlapped = TRUE]
               ELSE fwd[q]]
  /\ UNCHANGED <<graphVars, fatal, last_call>>

\* one turn of the while loop up to its call of ProbeNextLayer (lines 266-320),
\* with the status the layer returns when one is called
LoopStep(f, operators, status) ==
  LET same == [fatal |-> "", operators |-> operators, frame |-> f]
  IN IF f.operator_queue = <<>> THEN [same EXCEPT !.frame.pc = "exit"]
     ELSE
       LET current_op == Head(f.operator_queue)
           popped == [f EXCEPT !.operator_queue = Tail(f.operator_queue),
                               !.current_op = current_op]
           op == operators[current_op]
       IN IF current_op = f.output_op
          THEN [same EXCEPT !.frame =
                  [popped EXCEPT !.pc = "exit", !.output_dequeues = @ + 1]]
          ELSE IF current_op = f.input_op
          THEN [same EXCEPT !.frame =
                  [popped EXCEPT
                     !.pc = "probe",
                     !.layer_output_datas = f.inputs,
                     !.produced[current_op] = f.inputs,
                     !.next_ops = SortedNames(DOMAIN op.output_operators)]]
          ELSE IF CheckOperatorReadyFails(op)
          THEN [same EXCEPT !.fatal = "CHECK failed: meet_num <= size",
                            !.frame = popped]
          ELSE IF ~CheckOperatorReady(op)
          THEN [same EXCEPT !.frame =
                  [popped EXCEPT !.operator_queue = Append(@, current_op),
                                 !.retried = TRUE]]
          ELSE IF GatherInputs(op) = <<>>
          THEN [same EXCEPT !.fatal = "CHECK failed: !layer_input_datas.empty()",
                            !.frame = popped]
          ELSE IF op.output_operands = <<>>
          THEN [same EXCEPT !.fatal = "CHECK failed: output_operands != nullptr",
                            !.frame = popped]
          ELSE IF op.layer = ""
          THEN [same EXCEPT !.fatal = "null layer", !.frame = popped]
          ELSE
            LET ran == [popped EXCEPT
                          !.handler_runs[current_op] = @ + 1,
                          !.handler_meet[current_op] = op.meet_num,
                          !.handler_inputs[current_op] = GatherInputs(op)]
                nout == Len(op.output_operands[1].datas)
                outs == LayerOutputs(op.layer, GatherInputs(op), nout)
            IN IF status # "kInferSuccess"
               THEN [same EXCEPT !.fatal = "layer forward failed", !.frame = ran]
               ELSE [fatal |-> "",
                     operators |->
                       [operators EXCEPT ![current_op].output_operands[1].datas =
                          [j \in 1..nout |-> [@[j] EXCEPT !.v = outs[j]]]],
                     frame |->
                       [ran EXCEPT
                          !.pc = "probe",
                          !.layer_output_datas = outs,
                          !.produced[current_op] = outs,
                          !.next_ops = SortedNames(DOMAIN op.output_operators)]]

\* the statuses the layer of the node at the head of the queue may return
HeadStatuses(f, operators) ==
  IF f.operator_queue = <<>> THEN {"kInferSuccess"}
  ELSE LET op == operators[Head(f.operator_queue)]
       IN IF op.layer = "" \/ op.output_operands = <<>> THEN {"kInferSuccess"}
          ELSE LayerStatuses(op.layer, GatherInputs(op),
                             Len(op.output_operands[1].datas))

Abort(f) == [f EXCEPT !.pc = "aborted"]

ForwardLoop(p) ==
  /\ fatal = ""
  /\ fwd[p].pc = "loop"
  /\ \E status \in HeadStatuses(fwd[p], operators_) :
       LET r == LoopStep(fwd[p], operators_, status)
       IN /\ operators_' = r.operators
          /\ fatal' = r.fatal
          /\ fwd' = [fwd EXCEPT ![p] = IF r.fatal # "" THEN Abort(r.frame) ELSE r.frame]
          /\ last_call' = IF r.fatal # ""
                          THEN [op |-> "Forward", outcome |-> "fatal"]
                          ELSE last_call
  /\ UNCHANGED <<param_path_, graph_, graph_state_, input_operators_maps_,
                 output_operators_maps_, input_name_, output_name_, calls>>

\* ProbeNextLayer, one consumer of current_op at a time (lines 492-507)
ForwardProbe(p) ==
  /\ fatal = ""
  /\ fwd[p].pc = "probe"
  /\ LET f == fwd[p]
     IN IF f.next_ops = <<>>
        THEN /\ fwd' = [fwd EXCEPT ![p].pc = "loop"]
             /\ UNCHANGED <<operators_, fatal, last_call>>
        ELSE
          LET r == ProbeOne(operators_, f.operator_queue, f.current_op,
                            f.layer_output_datas, Head(f.next_ops))
              g == [f EXCEPT
                      !.next_ops = Tail(f.next_ops),
                      !.operator_queue = r.queue,
                      !.delivered = IF r.delivered
                                    THEN @ \cup {<<f.current_op, r.next>>} ELSE @,
                      !.enqueued[r.next] = IF r.pushed THEN @ + 1 ELSE @]
          IN /\ operators_' = r.operators
             /\ fatal' = r.fatal
             /\ fwd' = [fwd EXCEPT ![p] = IF r.fatal # "" THEN Abort(f) ELSE g]
             /\ last_call' = IF r.fatal # ""
                             THEN [op |-> "Forward", outcome |-> "fatal"]
                             ELSE last_call
  /\ UNCHANGED <<param_path_, graph_, graph_state_, input_operators_maps_,
                 output_operators_maps_, input_name_, output_name_, calls>>

\* what Forward returns: the buffers of the output node's first input operand
\* (lines 328-334)
OutputOperandDatas(operators, output_op) ==
  LET m == operators[output_op].input_operands
      first == Head(SortedNames(DOMAIN m))
  IN operators[output_op].input_operands_seq[m[first]].datas

\* faulty variant: the reset loop left out
MeetNumKept(operators) == operators

\* the meet_num values Forward leaves behind (lines 324-326)
MeetNumAtReturn(operators) == ResetMeetNum(operators)

\* after the while loop (lines 324-334)
ForwardExit(p) ==
  /\ fatal = ""
  /\ fwd[p].pc = "exit"
  /\ operators_' = MeetNumAtReturn(operators_)
  /\ IF Cardinality(DOMAIN operators_[fwd[p].output_op].input_operands) # 1
     THEN /\ fatal' = "The graph only support one path to the output node yet!"
          /\ fwd' = [fwd EXCEPT ![p] = Abort(fwd[p])]
          /\ last_call' = [op |-> "Forward", outcome |-> "fatal"]
     ELSE /\ fwd' = [fwd EXCEPT
                       ![p].pc = "returned",
                       ![p].result =
                         Payloads(OutputOperandDatas(operators_, fwd[p].output_op))]
          /\ last_call' = [op |-> "Forward", outcome |-> "returned"]
          /\ UNCHANGED fatal
  /\ UNCHANGED <<param_path_, graph_, graph_state_, input_operators_maps_,
                 output_operators_maps_, input_name_, output_name_, calls>>

\* ------------------------------------------------------------ specification
Next ==
  \/ InitCall
  \/ \E input_name \in BuildInputNames, output_name \in BuildOutputNames :
       BuildCall(input_name, output_name)
  \/ \E inputs \in InputLists : ForwardCall(MainFrame, inputs)
  \/ \E p \in Frames : ForwardLoop(p)
  \/ \E p \in Frames : ForwardProbe(p)
  \/ \E p \in Frames : ForwardExit(p)

Spec == Init /\ [][Next]_vars

\* a Forward call that has started keeps executing: its thread is not stopped
FairSpec ==
  /\ Spec
  /\ \A p \in Frames :
       WF_vars(ForwardLoop(p)) /\ WF_vars(ForwardProbe(p)) /\ WF_vars(ForwardExit(p))

\* ---------------------------------------- operands given buffers before Build
\* RuntimeOperand::datas and RuntimeOperator::output_operands are public
\* members: the embedding code may fill them before it calls Build, and both
\* passes of RuntimeGraphShape have a branch for operands that already exist.
ShapePaths == {"chain2d", "chain4d", "zerobatch", "negbatch", "badrank"}

\* n buffers of the given dimensions
Buffers(n, dims) == [j \in 1..n |-> [dims |-> dims, v |-> 0]]

\* the dimensions a pre-existing buffer may have: those NewTensor would give
\* it, and others
BufferDims(shapes) == {NewTensor(shapes).dims, <<1, shapes[2] + 1, 1>>}

\* a shape of the same rank that differs from shapes
OtherShape(shapes) == [shapes EXCEPT ![Len(shapes)] = @ + 1]

\* operators with buffers placed on one operand of the input_operands map
WithInputBuffers(operators) ==
  UNION {
    UNION {
      {[operators EXCEPT ![k].input_operands_seq[i].datas = Buffers(n, dims)] :
         <<n, dims>> \in
           (1..MaxBuffers) \X BufferDims(operators[k].input_operands_seq[i].shapes)} :
      i \in MappedOperands(operators[k])} :
    k \in 1..Len(operators)}

\* operators with an output operand placed on one node that has an output
WithOutputOperand(pnnx_operators, operators) ==
  UNION {
    {[operators EXCEPT ![k].output_operands =
        << [name |-> pnnx_operators[k].name, shapes |-> shapes, type |-> type,
            datas |-> Buffers(n, dims)] >>] :
       <<shapes, type, n, dims>> \in
         {pnnx_operators[k].outputs[1].shape,
          OtherShape(pnnx_operators[k].outputs[1].shape)}
         \X {"float32", "unknown"} \X (0..MaxBuffers)
         \X BufferDims(pnnx_operators[k].outputs[1].shape)} :
    k \in {j \in 1..Len(operators) : pnnx_operators[j].outputs # <<>>}}

\* Init has returned true and one operand was then given buffers
ShapeInit ==
  /\ param_path_ \in ShapePaths
  /\ graph_ = PnnxLoad(param_path_)
  /\ graph_state_ = StateAfterInit
  /\ operators_ \in
       WithInputBuffers(WireOperators(MakeOperators(PnnxLoad(param_path_))))
       \cup WithOutputOperand(PnnxLoad(param_path_),
                              WireOperators(MakeOperators(PnnxLoad(param_path_))))
  /\ input_operators_maps_ = EmptyMap
  /\ output_operators_maps_ = EmptyMap
  /\ input_name_ = ""
  /\ output_name_ = ""
  /\ fatal = ""
  /\ calls = 1
  /\ last_call = [op |-> "Init", outcome |-> "true"]
  /\ fwd = [p \in Frames |-> IdleFrame]

ShapeSpec == ShapeInit /\ [][Next]_vars

\* the same program with a second thread that may call Forward while a pass
\* of the first is running; the steps of the two passes interleave
NextInterleaved ==
  \/ Next
  \/ \E p \in Frames \ {MainFrame}, inputs \in ConcurrentInputLists :
       ConcurrentForwardCall(p, inputs)

InterleavedSpec == Init /\ [][NextInterleaved]_vars

\* ------------------------------------------------------------------ claims
Nodes == 1..Len(operators_)

Producers(k) == DOMAIN operators_[k].input_operands

NodeNamed(n) == FirstNamed(operators_, n)

\* the producers of k that have delivered to k in the pass of frame p
DeliveredTo(p, k) ==
  {n \in Producers(k) : \E j \in Nodes :
     operators_[j].name = n /\ <<j, k>> \in fwd[p].delivered}

\* frame p holds the history of a pass over the present operators_
InPass(p) == fwd[p].pc \in {"loop", "probe", "exit", "returned"}

\* C1: in one Forward pass a node's compute handler is called only when the
\* node's meet_num equals the number of its distinct producers (the size of
\* input_operands), and at most once.
C1_HandlerOnlyWhenReadyOnce ==
  \A p \in Frames : InPass(p) =>
    \A k \in Nodes :
      /\ fwd[p].handler_runs[k] <= 1
      /\ fwd[p].handler_runs[k] = 1 =>
           fwd[p].handler_meet[k] = Cardinality(Producers(k))

\* a node with two distinct producers has had its handler called
C1_Witness ==
  \E p \in Frames : InPass(p) /\ \E k \in Nodes :
    fwd[p].handler_runs[k] = 1 /\ Cardinality(Producers(k)) = 2

\* C2: every Forward call on a built graph pops the designated output node
\* exactly once and runs every other node at most once.
C2_OutputOnceOthersAtMostOnce ==
  \A p \in Frames : fwd[p].pc = "returned" =>
    /\ fwd[p].output_dequeues = 1
    /\ \A k \in Nodes : fwd[p].handler_runs[k] <= 1

\* C3: ProbeNextLayer pushes a consumer at most once per pass, and a consumer
\* is in the work queue only when every distinct producer of it has delivered
\* in this pass (in the diamond, C only after both A and B: meet_num is 2).
C3_EnqueuedOnceWhenAllDelivered ==
  \A p \in Frames : Running(p) =>
    \A k \in Nodes :
      /\ fwd[p].enqueued[k] <= 1
      /\ (InQueue(fwd[p].operator_queue, k) /\ k # fwd[p].input_op) =>
           /\ DeliveredTo(p, k) = Producers(k)
           /\ operators_[k].meet_num = Cardinality(Producers(k))

\* the diamond's C is in the work queue
C3_Witness ==
  \E p \in Frames :
    /\ Running(p)
    /\ param_path_ = "diamond"
    /\ InQueue(fwd[p].operator_queue, NodeNamed("C"))
    /\ operators_[NodeNamed("C")].meet_num = 2

\* C4: when Forward returns, the buffers it returns are those of the output
\* node's single input operand and hold what that operand's producer
\* delivered in this same pass; for the chain with identity handlers they
\* equal the caller's input tensors.
C4_ReturnsThisPassOutput ==
  \A p \in Frames : fwd[p].pc = "returned" =>
    /\ Cardinality(Producers(fwd[p].output_op)) = 1
    /\ \E j \in Nodes :
         /\ <<j, fwd[p].output_op>> \in fwd[p].delivered
         /\ fwd[p].result = fwd[p].produced[j]
    /\ param_path_ \in {"chain2d", "chain4d"} => fwd[p].result = fwd[p].inputs

\* what the handler of node k must have been given: for every operand of
\* input_operands_seq that has buffers, what its producer propagated
ExpectedInputs(p, k) ==
  Flatten([i \in 1..Len(operators_[k].input_operands_seq) |->
             IF operators_[k].input_operands_seq[i].datas = <<>> THEN <<>>
             ELSE fwd[p].produced[NodeNamed(operators_[k].input_operands_seq[i].name)]])

\* C5: the flat input list a handler is called with is the concatenation, in
\* declaration order, of the buffers of the node's input operands, and each
\* buffer holds what its producer output earlier in the same pass.
C5_HandlerGetsProducersOutputs ==
  \A p \in Frames : Running(p) =>
    \A k \in Nodes : fwd[p].handler_runs[k] = 1 =>
      /\ fwd[p].handler_inputs[k] = ExpectedInputs(p, k)
      /\ \A i \in 1..Len(operators_[k].input_operands_seq) :
           operators_[k].input_operands_seq[i].datas # <<>> =>
             <<NodeNamed(operators_[k].input_operands_seq[i].name), k>>
               \in fwd[p].delivered

\* the diamond's C was given A's output followed by B's, which differ
C5_Witness ==
  \E p \in Frames :
    /\ Running(p)
    /\ param_path_ = "diamond"
    /\ fwd[p].handler_runs[NodeNamed("C")] = 1
    /\ fwd[p].handler_inputs[NodeNamed("C")] =
         fwd[p].produced[NodeNamed("A")] \o fwd[p].produced[NodeNamed("B")]
    /\ fwd[p].produced[NodeNamed("A")] # fwd[p].produced[NodeNamed("B")]

\* a step that is a call of the API function named op
IsCall(op) == calls' = calls + 1 /\ last_call'.op = op

\* C6: the lifecycle state never moves backwards, whatever calls are made.
C6_StateMonotonic ==
  [][GraphStateRank(graph_state_') >= GraphStateRank(graph_state_)]_vars

\* C6 amended: only a successful Init call lowers the lifecycle state, and it
\* sets NeedBuild (Init on a Complete graph moves it back to NeedBuild);
\* Build, Forward and a failed Init never lower it.
C6_OnlyInitLowersState ==
  [][/\ GraphStateRank(graph_state_') < GraphStateRank(graph_state_) =>
          /\ IsCall("Init")
          /\ last_call'.outcome = "true"
          /\ graph_state_ = "Complete"
          /\ graph_state_' = "NeedBuild"
     /\ (IsCall("Init") /\ last_call'.outcome = "true") =>
          graph_state_' = "NeedBuild"]_vars

\* Init has succeeded on a graph that Build had completed
C6_Witness ==
  /\ graph_state_ = "NeedBuild"
  /\ last_call = [op |-> "Init", outcome |-> "true"]
  /\ DOMAIN input_operators_maps_ # {}

\* C7: Forward called while the state is below Complete ends with the state
\* error and computes nothing: no buffer or meet_num changes, nothing is
\* queued, no handler runs, and nothing runs afterwards.
C7_ForwardBeforeBuildRejected ==
  [][/\ fatal = ""
     /\ (IsCall("Forward")
         /\ GraphStateRank(graph_state_) < GraphStateRank("Complete")) =>
          /\ fatal' = "Graph need be build!"
          /\ operators_' = operators_
          /\ \A p \in Frames : fwd'[p] # fwd[p] =>
               /\ fwd'[p].pc = "aborted"
               /\ fwd'[p].operator_queue = <<>>
               /\ fwd'[p].handler_runs = <<>>
               /\ fwd'[p].delivered = {}]_vars

\* Forward was refused on a graph that was initialised but not built
C7_Witness ==
  /\ fatal = "Graph need be build!"
  /\ last_call = [op |-> "Forward", outcome |-> "fatal"]
  /\ graph_state_ = "NeedBuild"
  /\ operators_ # <<>>

\* C8: Build called on a Complete graph is either refused with the state
\* error or completes leaving the nodes and edges as they were.
C8_SecondBuildRejectedOrNoop ==
  [][(IsCall("Build") /\ graph_state_ = "Complete") =>
       \/ fatal' = "Graph status error"
       \/ /\ fatal' = ""
          /\ Len(operators_') = Len(operators_)
          /\ \A k \in Nodes :
               /\ operators_'[k].name = operators_[k].name
               /\ operators_'[k].output_operators = operators_[k].output_operators
               /\ DOMAIN operators_'[k].input_operands = Producers(k)]_vars

\* C9: a Forward call that returns leaves every meet_num at zero, so every
\* pass starts with all of them zero.
C9_MeetNumZeroBetweenPasses ==
  /\ (\A p \in Frames : fwd[p].pc \in {"idle", "returned"}) =>
       \A k \in Nodes : operators_[k].meet_num = 0
  /\ \A p \in Frames : (Running(p) /\ fwd[p].delivered = {}) =>
       \A k \in Nodes : operators_[k].meet_num = 0

\* a pass that made deliveries and reached the output has returned
C9_Witness ==
  \E p \in Frames :
    /\ fwd[p].pc = "returned"
    /\ fwd[p].delivered # {}
    /\ fwd[p].output_dequeues = 1

\* the nodes that become ready in a pass started at input_op: the least set
\* holding input_op and every node all of whose producers are in it and
\* deliver to it
RECURSIVE FireSet(_, _)
FireSet(operators, S) ==
  LET more == {k \in (1..Len(operators)) \ S :
                 /\ DOMAIN operators[k].input_operands # {}
                 /\ \A n \in DOMAIN operators[k].input_operands :
                      \E j \in S :
                        /\ operators[j].name = n
                        /\ operators[k].name \in DOMAIN operators[j].output_operators}
  IN IF more = {} THEN S ELSE FireSet(operators, S \cup more)

\* the nodes with a producer that never delivers in a pass of frame p
StarvedNodes(p) ==
  {k \in Nodes \ FireSet(operators_, {fwd[p].input_op}) : Producers(k) # {}}

\* C10 as stated: on a graph with a node that can never become ready,
\* Forward does not return.
C10_StarvedNodeNeverReturns ==
  \A p \in Frames : fwd[p].pc = "returned" => StarvedNodes(p) = {}

\* C10 amended: a node that can never become ready is never put on the work
\* queue and never run, no node is ever pushed back as unready, and every
\* Forward call ends (it returns or the process is terminated).
C10_StarvedNodeNeverQueued ==
  /\ [](\A p \in Frames : InPass(p) =>
          /\ ~fwd[p].retried
          /\ \A k \in StarvedNodes(p) :
               /\ ~InQueue(fwd[p].operator_queue, k)
               /\ fwd[p].handler_runs[k] = 0)
  /\ \A p \in Frames : [](Running(p) => <>(~Running(p)))

\* Forward has returned on a graph with a starved node, the output not reached
C10_Witness ==
  \E p \in Frames :
    /\ fwd[p].pc = "returned"
    /\ StarvedNodes(p) # {}
    /\ fwd[p].output_dequeues = 0

\* node k was put on the work queue of frame p, or run by it, although not
\* every producer of k has delivered to it in the pass of frame p
UnreadyInPass(p, k) ==
  /\ k # fwd[p].input_op
  /\ InQueue(fwd[p].operator_queue, k) \/ fwd[p].handler_runs[k] >= 1
  /\ DeliveredTo(p, k) # Producers(k)

\* C11: only one Forward may be in flight per graph. When two passes
\* interleave, the shared meet_num lets the CHECK of CheckOperatorReady fail
\* or a node be queued or run by a pass in which not all its producers have
\* delivered; a pass during which no other pass ran never shows either.
C11_OnlyOverlappedPassesBreak ==
  /\ fatal = "CHECK failed: meet_num <= size" =>
       \E p \in Frames : fwd[p].overlapped
  /\ \A p \in Frames : (InPass(p) /\ ~fwd[p].overlapped) =>
       \A k \in Nodes : ~UnreadyInPass(p, k)

\* a pass that overlapped another has run the handler of a node one of whose
\* producers did not deliver in that pass
C11_Witness ==
  \E p \in Frames :
    /\ InPass(p)
    /\ fwd[p].overlapped
    /\ \E k \in Nodes : fwd[p].handler_runs[k] = 1 /\ UnreadyInPass(p, k)

\* the operands of the input_operands map of node k
InputOperands(k) ==
  {operators_[k].input_operands_seq[i] : i \in MappedOperands(operators_[k])}

\* some operand Build is about to resolve already holds buffers whose number
\* differs from the batch of its shape (input pass) or of the descriptor's
\* shape (output pass)
BufferCountMismatch ==
  \/ \E k \in Nodes : \E operand \in InputOperands(k) :
       /\ operand.datas # <<>>
       /\ operand.shapes # <<>>
       /\ Len(operand.datas) # operand.shapes[1]
  \/ \E k \in Nodes :
       /\ operators_[k].output_operands # <<>>
       /\ graph_[k].outputs # <<>>
       /\ graph_[k].outputs[1].shape # <<>>
       /\ Len(operators_[k].output_operands[1].datas) # graph_[k].outputs[1].shape[1]

\* the CHECKs of the two shape passes
ShapeMismatchErrors ==
  {"Batch size is wrong!", "CHECK failed: batch", "CHECK failed: type",
   "CHECK failed: shapes", "CHECK failed: origin_shape",
   "CHECK failed: tensor_shapes", "std::out_of_range",
   "Dynamic batch size is not supported!", "Unsupported shape sizes",
   "The graph only support float32 yet!"}

\* C12: Build refuses an input operand that already holds buffers whose
\* number differs from shape[0], and an existing output operand whose number
\* of buffers differs from the descriptor's batch: the call ends in a CHECK
\* of the shape passes and the graph does not become Complete.
C12_BufferCountMismatchRejected ==
  [][(IsCall("Build") /\ ~BuildNeedsInit(graph_state_) /\ BufferCountMismatch) =>
       /\ fatal' \in ShapeMismatchErrors
       /\ graph_state_' = graph_state_
       /\ graph_state_' # "Complete"
       /\ operators_' = operators_]_vars

\* Build has refused an operand whose only defect is the number of buffers
C12_Witness ==
  /\ fatal \in {"Batch size is wrong!", "CHECK failed: batch"}
  /\ last_call = [op |-> "Build", outcome |-> "fatal"]
  /\ graph_state_ = "NeedBuild"
  /\ BufferCountMismatch

\* a shape both passes accept: rank 2 or 4 and a batch of zero or more
ShapeAccepted(shapes) == Len(shapes) \in {2, 4} /\ shapes[1] >= 0

\* every operand shape the two passes of Build look at
ResolvedShapes(pnnx_operators, operators) ==
  UNION {{operators[k].input_operands_seq[i].shapes :
            i \in MappedOperands(operators[k])} : k \in 1..Len(operators)}
  \cup {pnnx_operators[k].outputs[1].shape :
          k \in {j \in 1..Len(pnnx_operators) : pnnx_operators[j].outputs # <<>>}}

\* no operand has buffers yet and no output operand exists
NothingAllocated(operators) ==
  \A k \in 1..Len(operators) :
    /\ operators[k].output_operands = <<>>
    /\ \A i \in 1..Len(operators[k].input_operands_seq) :
         operators[k].input_operands_seq[i].datas = <<>>

\* C13: in both shape passes of Build a shape is accepted if and only if its
\* rank is 2 or 4 and its batch shape[0] is >= 0 (0 included); any other rank
\* and any negative batch ends Build in a CHECK, the graph not Complete.
C13_ShapeAcceptedIffRankAndBatch ==
  [][(/\ IsCall("Build")
      /\ BuildInit.ok /\ BuildInit.fatal = ""
      /\ ~LayerCreateFails(BuildInit.operators)
      /\ NothingAllocated(BuildInit.operators)) =>
       IF \A shapes \in ResolvedShapes(BuildInit.graph, BuildInit.operators) :
            ShapeAccepted(shapes)
       THEN fatal' = "" /\ graph_state_' = "Complete"
       ELSE /\ fatal' \in {"Dynamic batch size is not supported!",
                           "Unsupported shape sizes"}
            /\ graph_state_' # "Complete"]_vars

\* Build has completed on a graph whose operands have a batch of zero
C13_Witness ==
  /\ param_path_ = "zerobatch"
  /\ graph_state_ = "Complete"
  /\ last_call = [op |-> "Build", outcome |-> "done"]
  /\ \A shapes \in ResolvedShapes(graph_, operators_) : shapes[1] = 0

\* the number of buffers the operands of input_operands_seq of node k declare
RECURSIVE DeclaredBuffers(_, _)
DeclaredBuffers(k, i) ==
  IF i = 0 THEN 0
  ELSE operators_[k].input_operands_seq[i].shapes[1] + DeclaredBuffers(k, i - 1)

\* C14: once Build has completed, every operand of a node's
\* input_operands_seq is the operand the input_operands map holds under its
\* producer's name, so it has shape[0] buffers; a handler is therefore given
\* shape[0] buffers for every declared input, a producer declared twice
\* contributing its buffers twice.
C14_SeqOperandsAreMapOperands ==
  graph_state_ = "Complete" =>
    \A k \in Nodes :
      /\ \A i \in 1..Len(operators_[k].input_operands_seq) :
           /\ operators_[k].input_operands[operators_[k].input_operands_seq[i].name] = i
           /\ Len(operators_[k].input_operands_seq[i].datas) =
                operators_[k].input_operands_seq[i].shapes[1]
      /\ \A p \in Frames : (Running(p) /\ fwd[p].handler_runs[k] = 1) =>
           Len(fwd[p].handler_inputs[k]) =
             DeclaredBuffers(k, Len(operators_[k].input_operands_seq))

\* frame p takes a step of ProbeNextLayer's loop
ProbeStep(p) ==
  /\ calls' = calls
  /\ fwd[p].pc = "probe"
  /\ fwd[p].next_ops # <<>>
  /\ fwd'[p] # fwd[p]

\* the consumer that step looks at, and whether it has an operand for current_op
ProbedOp(p) ==
  operators_[fwd[p].current_op].output_operators[Head(fwd[p].next_ops)]

ProbedOperandDatas(p) ==
  LET next == operators_[ProbedOp(p)]
  IN next.input_operands_seq[
       next.input_operands[operators_[fwd[p].current_op].name]].datas

Delivers(p) ==
  /\ operators_[fwd[p].current_op].name
       \in DOMAIN operators_[ProbedOp(p)].input_operands
  /\ Len(fwd[p].layer_output_datas) = Len(ProbedOperandDatas(p))

Structure(operators) ==
  [k \in 1..Len(operators) |->
     [operators[k] EXCEPT
        !.meet_num = 0,
        !.input_operands_seq =
          [i \in 1..Len(@) |->
             [@[i] EXCEPT !.datas = [j \in 1..Len(@) |-> [@[j] EXCEPT !.v = 0]]]],
        !.output_operands =
          [i \in 1..Len(@) |->
             [@[i] EXCEPT !.datas = [j \in 1..Len(@) |-> [@[j] EXCEPT !.v = 0]]]]]]

\* C16: a Forward call changes only buffer contents and meet_num: the nodes,
\* their edges, operands and layers, the sentinel maps, the recorded input
\* and output names and the lifecycle state stay as they were.
C16_ForwardKeepsStructure ==
  [][(~IsCall("Init") /\ ~IsCall("Build")) =>
       /\ Structure(operators_') = Structure(operators_)
       /\ UNCHANGED <<graph_, graph_state_, input_operators_maps_,
                      output_operators_maps_, input_name_, output_name_,
                      param_path_>>]_vars

\* a Forward call has returned after writing buffers and counting deliveries
C16_Witness ==
  \E p \in Frames :
    /\ fwd[p].pc = "returned"
    /\ fwd[p].result # <<>>
    /\ \E k \in Nodes : fwd[p].handler_runs[k] = 1
    /\ operators_ # Structure(operators_)

\* X has a consumer-edge to Y
Edge(operators, x, y) ==
  /\ operators[y].name \in DOMAIN operators[x].output_operators
  /\ operators[x].output_operators[operators[y].name] = y

\* C17: after a successful Init, X has a consumer-edge to Y if and only if X
\* and Y are distinct nodes and Y's name is among the consumer names recorded
\* for X's outputs; no node has an edge to itself; and Init called again
\* rebuilds the same nodes and edges, none of them twice.
C17_EdgesMatchConsumerNames ==
  /\ [](\A x \in Nodes, y \in Nodes :
          Edge(operators_, x, y) <=>
            (x # y /\ operators_[y].name \in Range(operators_[x].output_names)))
  /\ [][(IsCall("Init") /\ last_call'.outcome = "true" /\ operators_ # <<>>) =>
          /\ Len(operators_') = Len(operators_)
          /\ \A k \in Nodes :
               /\ operators_'[k].name = operators_[k].name
               /\ operators_'[k].output_operators = operators_[k].output_operators
               /\ operators_'[k].output_names = operators_[k].output_names]_vars

\* Init has succeeded again on a built graph one of whose nodes names itself
\* as a consumer, and that node has no edge to itself
C17_Witness ==
  /\ last_call = [op |-> "Init", outcome |-> "true"]
  /\ DOMAIN input_operators_maps_ # {}
  /\ \E x \in Nodes :
       /\ operators_[x].name \in Range(operators_[x].output_names)
       /\ ~Edge(operators_, x, x)
       /\ \E y \in Nodes : Edge(operators_, x, y)

\* the nodes whose output operand exists when the output pass reaches them
WithExistingOutput ==
  {k \in Nodes : operators_[k].output_operands # <<>> /\ graph_[k].outputs # <<>>}

\* what the claim requires of an existing output operand
ExistingOutputValid(k) ==
  LET operand == operators_[k].output_operands[1]
      shapes == graph_[k].outputs[1].shape
  IN /\ Len(operand.datas) = shapes[1]
     /\ operand.type = "float32"
     /\ operand.shapes = shapes
     /\ \A j \in 1..Len(operand.datas) : DimsMatch(operand.datas[j].dims, shapes)

\* Build reaches the output pass and every descriptor shape passes its
\* rank and batch CHECKs
ReachesExistingOutputs ==
  /\ ~BuildNeedsInit(graph_state_)
  /\ ~LayerCreateFails(operators_)
  /\ InitOperatorInputTensorError(BindLayers(operators_)) = ""
  /\ \A k \in Nodes : graph_[k].outputs # <<>> =>
       ShapeAccepted(graph_[k].outputs[1].shape)
  /\ WithExistingOutput # {}

\* C18: the output pass accepts an existing output operand if and only if
\* its buffer count equals the descriptor's batch, its type is float32, its
\* shape equals the descriptor's and every buffer's dimensions match the
\* non-batch dimensions; such an operand of rank 2 or 4 passes.
C18_ExistingOutputAcceptedIffValid ==
  [][(IsCall("Build") /\ ReachesExistingOutputs) =>
       (fatal' = "" <=> \A k \in WithExistingOutput : ExistingOutputValid(k))]_vars

\* frame p is about to copy a buffer list into an operand of another length
SizeMismatch(p) ==
  /\ operators_[fwd[p].current_op].name
       \in DOMAIN operators_[ProbedOp(p)].input_operands
  /\ Len(fwd[p].layer_output_datas) # Len(ProbedOperandDatas(p))

\* C19: when the buffer list being propagated (the caller's input tensors
\* for the input node) and the consumer's operand for that producer differ
\* in length, the pass ends there: the consumer's meet_num is not raised, it
\* is not queued, no buffer is written, no handler runs afterwards and
\* Forward returns nothing.
C19_SizeMismatchAborts ==
  /\ [][\A p \in Frames : (ProbeStep(p) /\ SizeMismatch(p)) =>
          /\ fatal' = "CHECK failed: src.size() == dest.size()"
          /\ operators_' = operators_
          /\ fwd'[p].pc = "aborted"
          /\ fwd'[p].operator_queue = fwd[p].operator_queue
          /\ fwd'[p].handler_runs = fwd[p].handler_runs
          /\ fwd'[p].result = <<>>]_vars
  /\ [][fatal = ""]_vars

\* a pass has ended at its first delivery: the caller gave the wrong number
\* of input tensors
C19_Witness ==
  \E p \in Frames :
    /\ fatal = "CHECK failed: src.size() == dest.size()"
    /\ fwd[p].pc = "aborted"
    /\ fwd[p].current_op = fwd[p].input_op
    /\ Len(fwd[p].inputs) # Len(ProbedOperandDatas(p))
    /\ operators_[ProbedOp(p)].meet_num = 0
    /\ ~InQueue(fwd[p].operator_queue, ProbedOp(p))

\* the nodes a pass started at the nodes of S can reach along consumer-edges
RECURSIVE Reachable(_)
Reachable(S) ==
  LET more == {y \in Nodes \ S : \E x \in S : Edge(operators_, x, y)}
  IN IF more = {} THEN S ELSE Reachable(S \cup more)

\* the nodes the nodes of S depend on: their producers, and theirs, ...
RECURSIVE Upstream(_)
Upstream(S) ==
  LET more == {x \in Nodes \ S :
                 \E y \in S : operators_[x].name \in Producers(y)}
  IN IF more = {} THEN S ELSE Upstream(S \cup more)

\* no node is, directly or through other nodes, a producer of itself
Acyclic ==
  \A k \in Nodes :
    k \notin Upstream({x \in Nodes : operators_[x].name \in Producers(k)})

\* the graph frame p runs on is acyclic with batch >= 1, the output node and
\* every producer of every node can be reached from the input node
WellFormed(p) ==
  /\ Acyclic
  /\ \A shapes \in ResolvedShapes(graph_, operators_) : shapes[1] >= 1
  /\ fwd[p].output_op \in Reachable({fwd[p].input_op})
  /\ \A k \in Nodes : \A n \in Producers(k) :
       \E x \in Reachable({fwd[p].input_op}) : operators_[x].name = n

\* the pass of frame p reached the output node and Forward returned
ReturnedOutput(p) == fwd[p].pc = "returned" /\ fwd[p].output_dequeues = 1

InputsFit(p) ==
  LET name == operators_[fwd[p].input_op].name
  IN \A y \in Nodes :
       (Edge(operators_, fwd[p].input_op, y) /\ name \in Producers(y)) =>
         Len(operators_[y].input_operands_seq[operators_[y].input_operands[name]].datas)
           = Len(fwd[p].inputs)

C21_MeetNumWithinProducers ==
  /\ \A k \in Nodes : operators_[k].meet_num <= Cardinality(Producers(k))
  /\ fatal # "CHECK failed: meet_num <= size"

\* in the graph whose paths into C differ in length, C has received both
\* deliveries of a pass: its meet_num is at the bound
C21_Witness ==
  \E p \in Frames :
    /\ Running(p)
    /\ param_path_ = "skew"
    /\ Acyclic
    /\ DeliveredTo(p, NodeNamed("C")) = Producers(NodeNamed("C"))
    /\ operators_[NodeNamed("C")].meet_num = Cardinality(Producers(NodeNamed("C")))
    /\ Cardinality(Producers(NodeNamed("C"))) = 2

====
